---------------------------- MODULE Spec2Model ----------------------------
(* A model of pyog's dit.py: the DataConduIT binding.                      *)
(*                                                                         *)
(* The remote DataConduIT store, one DITElement handle held by the client, *)
(* the connection, and a watcher with its notification queue are the       *)
(* state.  Every public operation of dit.py is one action: the whole       *)
(* handler, including the commit and the refresh it ends with.  What the   *)
(* provider answers (a call succeeds or raises a COM/WMI error, with or    *)
(* without DataConduIT's last-error information) is an input of the        *)
(* action.                                                                 *)
EXTENDS Integers, Sequences, FiniteSets, TLC

VARIABLES
    connected,  \* DIT() has returned a DITConnection
    store,      \* the remote store: sequence of Lnl_Cardholder instances, ID = index
    clock,      \* the server's stamp for LASTCHANGED
    el,         \* the client's DITElement: [bound, path, props]
    last,       \* what the last operation did (history, for stating the claims)
    watcher,    \* the client's watcher: "none", "hw" or "sw"
    evq,        \* notifications the provider holds for the watcher, oldest first
    arrived,    \* every notification that arrived for the watcher, in order
    delivered,  \* what the completed watcher calls returned, in order
    ncalls      \* number of watcher calls that returned a value

vars == <<connected, store, clock, el, last, watcher, evq, arrived, delivered,
          ncalls>>

-----------------------------------------------------------------------------
(* Bounds of the model *)

MaxObjs == 2        \* instances the store holds at most
MaxChanges == 2     \* LASTCHANGED stamps the server hands out at most
MaxEvents == 3      \* notifications that arrive at most

-----------------------------------------------------------------------------
(* Values *)

NULL == "None"                          \* Python's None
NoPath == 0                             \* SWbemObject.Path_.Path == ""
Keys == {"CITY", "ZIP"}                 \* client-settable properties
Vals == {"Rochester"}                   \* values the client assigns
OtherVals == {"Rome"}                   \* values other clients assign
Raises == {"DITError", "COMError"}

\* A freshly spawned instance: nothing set, no server stamp.
BlankProps == [CITY |-> NULL, ZIP |-> NULL, LASTCHANGED |-> 0]

\* The keyword-argument dicts of set(**kwargs) / DITElement(**kwargs): none,
\* one property, every property.
KwargSets == UNION {[D -> Vals] : D \in {{}, {"CITY"}, Keys}}

\* What the provider answers to the calls of one operation: every call
\* succeeds, or one of them raises a COM/WMI error, with or without
\* DataConduIT's error information (an operation ends at its first error).
Answers ==
    {[ok |-> TRUE, info |-> FALSE], [ok |-> FALSE, info |-> TRUE],
     [ok |-> FALSE, info |-> FALSE]}
ElementAnswers ==
    {a \in [spawnOk : BOOLEAN, putOk : BOOLEAN, getOk : BOOLEAN, info : BOOLEAN] :
        /\ ~(~a.spawnOk /\ ~a.putOk) /\ ~(~a.spawnOk /\ ~a.getOk)
        /\ ~(~a.putOk /\ ~a.getOk)
        /\ (a.spawnOk /\ a.putOk /\ a.getOk) => ~a.info}
SetAnswers == {a \in ElementAnswers : a.spawnOk}

\* The neutral operation record; every action overwrites the fields it uses.
NoOp == [op |-> "none", exc |-> "ok", comErr |-> FALSE, info |-> FALSE,
         putRejected |-> FALSE, refreshed |-> FALSE,
         kw |-> <<>>, sel |-> [text |-> <<>>, names |-> <<>>], rows |-> <<>>,
         cls |-> <<>>, operation |-> <<>>,
         result |-> <<>>, returnedList |-> FALSE, wql |-> <<>>, nq |-> 0,
         timeout |-> -1, timedOut |-> FALSE]

-----------------------------------------------------------------------------
(* Error handling *)

\* dit_error_info(): the SWbemLastError object, or None when Dispatch raises.
dit_error_info(info) == IF info THEN "Lnl_Error" ELSE NULL

\* A handler that returns to its caller when there is no error information.
handle_error_returns(info) ==
    IF dit_error_info(info) # NULL THEN "DITError" ELSE "returned"

\* handle_error(): raise DITError with error info, COMError without.
handle_error(info) ==
    IF dit_error_info(info) # NULL THEN "DITError" ELSE "COMError"

-----------------------------------------------------------------------------
(* The provider (SWbemServices / SWbemObject), as dit.py calls it *)

\* SWbemObject.Put_(): commit an instance.  An instance without a path is
\* created and gets the next ID; one with a path is overwritten.  The server
\* stamps LASTCHANGED.  `ok` is the provider's verdict.
ProviderPut(st, clk, path, props, ok) ==
    IF ~ok \/ clk >= MaxChanges \/ (path = NoPath /\ Len(st) >= MaxObjs)
          \/ (path # NoPath /\ path \notin DOMAIN st)
    THEN [ok |-> FALSE, store |-> st, clock |-> clk, relpath |-> NoPath]
    ELSE LET stamped == [props EXCEPT !.LASTCHANGED = clk + 1]
         IN IF path = NoPath
            THEN [ok |-> TRUE, store |-> Append(st, stamped), clock |-> clk + 1,
                  relpath |-> Len(st) + 1]
            ELSE [ok |-> TRUE, store |-> [st EXCEPT ![path] = stamped],
                  clock |-> clk + 1, relpath |-> path]

\* namespace.Get(path): a fresh instance read from the store.
ProviderGet(st, path, ok) ==
    IF ok /\ path \in DOMAIN st
    THEN [ok |-> TRUE, path |-> path, props |-> st[path]]
    ELSE [ok |-> FALSE, path |-> NoPath, props |-> BlankProps]

-----------------------------------------------------------------------------
(* _wmii._wmi_object, the base class of DITElement, lives in pyog/_wmii.py. *)
(* It is modelled from what dit.py says of it (line 462: "If path exists   *)
(* _wmii._wmi_object.__setattr__() will call SWbemObject.Put_()") and from *)
(* the staging the specification describes.                                *)

\* Stage the given properties in the local instance.
Stage(props, kw) ==
    [k \in DOMAIN props |-> IF k \in DOMAIN kw THEN kw[k] ELSE props[k]]

\* _wmi_object.__setattr__ / _wmi_object.set: stage, then Put_() when the
\* instance has a path.  The staged value lives in the local instance whether
\* or not the Put_() succeeds.
wmi_object_put(staged, put) ==
    [ok |-> put.ok, el |-> staged, store |-> put.store, clock |-> put.clock]

wmi_object_set(e, st, clk, kw, putOk) ==
    IF e.path # NoPath /\ DOMAIN kw # {}
    THEN wmi_object_put([e EXCEPT !.props = Stage(e.props, kw)],
                        ProviderPut(st, clk, e.path, Stage(e.props, kw), putOk))
    ELSE [ok |-> TRUE, el |-> [e EXCEPT !.props = Stage(e.props, kw)],
          store |-> st, clock |-> clk]

-----------------------------------------------------------------------------
(* DITElement *)

\* The outcome of an element operation.
Outcome(exc, e, st, clk, comErr, rejected, refreshed) ==
    [exc |-> exc, el |-> e, store |-> st, clock |-> clk, comErr |-> comErr,
     putRejected |-> rejected, refreshed |-> refreshed]

\* A refresh that leaves the element as it was.
refresh_skipped(e, st, clk, path, getOk, info, comErr, rejected) ==
    Outcome("ok", e, st, clk, comErr, rejected, TRUE)

\* DITElement.__refresh(obj_path): Get the instance again and replace the
\* element's members by those of a DITElement wrapping the fresh instance.
refresh(e, st, clk, path, getOk, info, comErr, rejected) ==
    IF ~ProviderGet(st, path, getOk).ok
    THEN IF handle_error(info) \in Raises
         THEN Outcome(handle_error(info), e, st, clk, TRUE, rejected, FALSE)
         ELSE \* past the handler new_obj is unbound
              Outcome("UnboundLocalError", e, st, clk, TRUE, rejected, FALSE)
    ELSE Outcome("ok", [bound |-> TRUE,
                        path |-> ProviderGet(st, path, getOk).path,
                        props |-> ProviderGet(st, path, getOk).props],
                 st, clk, comErr, rejected, TRUE)

\* DITElement._commit(): with a path only refresh (the base class has already
\* Put_ the change); without one Put_() the instance and refresh from the
\* path Put_() returned.
commit_put(e, st, clk, put, getOk, info, comErr, rejected) ==
    IF ~put.ok
    THEN IF handle_error(info) \in Raises
         THEN Outcome(handle_error(info), e, st, clk, TRUE, TRUE, FALSE)
         ELSE \* past the handler obj_path is still ""
              refresh(e, st, clk, NoPath, getOk, info, TRUE, TRUE)
    ELSE refresh(e, put.store, put.clock, put.relpath, getOk, info, comErr,
                 rejected)

commit(e, st, clk, putOk, getOk, info, comErr, rejected) ==
    IF e.path # NoPath
    THEN refresh(e, st, clk, e.path, getOk, info, comErr, rejected)
    ELSE commit_put(e, st, clk, ProviderPut(st, clk, e.path, e.props, putOk),
                    getOk, info, comErr, rejected)

\* DITElement.__setattr__(key, value) and DITElement.set(**kwargs): the base
\* class stages (and Put_s), then _commit().
element_set_base(base, putOk, getOk, info) ==
    IF ~base.ok
    THEN IF handle_error(info) \in Raises
         THEN Outcome(handle_error(info), base.el, base.store, base.clock,
                      TRUE, TRUE, FALSE)
         ELSE commit(base.el, base.store, base.clock, putOk, getOk, info,
                     TRUE, TRUE)
    ELSE commit(base.el, base.store, base.clock, putOk, getOk, info,
                FALSE, FALSE)

element_set(e, st, clk, kw, putOk, getOk, info) ==
    element_set_base(wmi_object_set(e, st, clk, kw, putOk), putOk, getOk, info)

\* DITElement(connection, lnl_class, **kwargs): spawn a blank instance, then
\* set(**kwargs).
element_new(st, clk, kw, spawnOk, putOk, getOk, info) ==
    LET blank == [bound |-> TRUE, path |-> NoPath, props |-> BlankProps]
    IN IF ~spawnOk
       THEN IF handle_error(info) \in Raises
            THEN Outcome(handle_error(info), blank, st, clk, TRUE, FALSE, FALSE)
            ELSE \* past the handler the element wraps no instance
                 Outcome("AttributeError", blank, st, clk, TRUE, FALSE, FALSE)
       ELSE element_set(blank, st, clk, kw, putOk, getOk, info)

\* The record of an element operation.
Did(op, kw, info, r) ==
    [NoOp EXCEPT !.op = op, !.exc = r.exc, !.comErr = r.comErr,
                 !.info = (r.comErr /\ info),
                 !.putRejected = r.putRejected, !.refreshed = r.refreshed,
                 !.kw = kw]

SetAttr(key, value, putOk, getOk, info) ==
    /\ connected /\ el.bound
    /\ \E r \in {element_set(el, store, clock, [k \in {key} |-> value],
                             putOk, getOk, info)} :
          /\ el' = r.el
          /\ store' = r.store
          /\ clock' = r.clock
          /\ last' = Did("setattr", [k \in {key} |-> value], info, r)
    /\ UNCHANGED <<connected, watcher, evq, arrived, delivered, ncalls>>

Set(kw, putOk, getOk, info) ==
    /\ connected /\ el.bound
    /\ \E r \in {element_set(el, store, clock, kw, putOk, getOk, info)} :
          /\ el' = r.el
          /\ store' = r.store
          /\ clock' = r.clock
          /\ last' = Did("set", kw, info, r)
    /\ UNCHANGED <<connected, watcher, evq, arrived, delivered, ncalls>>

\* x = DITElement(dit, "Lnl_Cardholder", **kwargs): x is bound only when the
\* constructor returns.
NewElement(kw, spawnOk, putOk, getOk, info) ==
    /\ connected
    /\ \E r \in {element_new(store, clock, kw, spawnOk, putOk, getOk, info)} :
          /\ el' = IF r.exc = "ok" THEN r.el ELSE el
          /\ store' = r.store
          /\ clock' = r.clock
          /\ last' = Did("new", kw, info, r)
    /\ UNCHANGED <<connected, watcher, evq, arrived, delivered, ncalls>>

\* Another client of the same store changes an instance.
ExternalWrite(o, key, value) ==
    /\ o \in DOMAIN store
    /\ clock < MaxChanges
    /\ store[o][key] # value
    /\ store' = [store EXCEPT ![o] = [@ EXCEPT ![key] = value,
                                               !.LASTCHANGED = clock + 1]]
    /\ clock' = clock + 1
    /\ last' = [NoOp EXCEPT !.op = "external"]
    /\ UNCHANGED <<connected, el, watcher, evq, arrived, delivered, ncalls>>

\* DIT(server=...): _connect_dit returns a DITConnection or raises.
Connect(ok, info) ==
    /\ ~connected
    /\ connected' = ok
    /\ last' = [NoOp EXCEPT !.op = "connect", !.comErr = ~ok,
                            !.info = (~ok /\ info),
                            !.exc = IF ok THEN "ok"
                                    ELSE IF handle_error(info) \in Raises
                                         THEN handle_error(info)
                                         ELSE "ok"]
    /\ UNCHANGED <<store, clock, el, watcher, evq, arrived, delivered, ncalls>>

-----------------------------------------------------------------------------
(* Python strings, as sequences of one-character strings *)

UpperLetters == <<"A", "B", "C", "D", "E", "F", "G", "H", "I", "J", "K", "L", "M">> \o
                <<"N", "O", "P", "Q", "R", "S", "T", "U", "V", "W", "X", "Y", "Z">>
LowerLetters == <<"a", "b", "c", "d", "e", "f", "g", "h", "i", "j", "k", "l", "m">> \o
                <<"n", "o", "p", "q", "r", "s", "t", "u", "v", "w", "x", "y", "z">>

\* The case mappings of the letters, as tables.
LowerOf ==
    [c \in {UpperLetters[i] : i \in DOMAIN UpperLetters} |->
        LowerLetters[CHOOSE i \in DOMAIN UpperLetters : UpperLetters[i] = c]]
UpperOf ==
    [c \in {LowerLetters[i] : i \in DOMAIN LowerLetters} |->
        UpperLetters[CHOOSE i \in DOMAIN LowerLetters : LowerLetters[i] = c]]

lower_ch(c) == IF c \in DOMAIN LowerOf THEN LowerOf[c] ELSE c
upper_ch(c) == IF c \in DOMAIN UpperOf THEN UpperOf[c] ELSE c

\* str.lower(), str.upper()
str_lower(s) == [i \in 1..Len(s) |-> lower_ch(s[i])]
str_upper(s) == [i \in 1..Len(s) |-> upper_ch(s[i])]

\* str.index(pat): the lowest 0-based offset of pat in s; -1 stands for the
\* ValueError Python raises when there is none.
str_index(s, pat) ==
    LET hits == {i \in 0..(Len(s) - Len(pat)) : SubSeq(s, i + 1, i + Len(pat)) = pat}
    IN IF hits = {} THEN -1 ELSE CHOOSE i \in hits : \A j \in hits : i <= j

\* s[a:b] for 0 <= a and 0 <= b <= len(s)
py_slice(s, a, b) == SubSeq(s, a + 1, b)

\* s.split(sep) for a one-character separator
RECURSIVE str_split(_, _)
str_split(s, sep) ==
    IF str_index(s, <<sep>>) = -1 THEN <<s>>
    ELSE <<SubSeq(s, 1, str_index(s, <<sep>>))>>
         \o str_split(SubSeq(s, str_index(s, <<sep>>) + 2, Len(s)), sep)

\* s.strip(), for blanks
RECURSIVE str_lstrip(_)
str_lstrip(s) == IF s # <<>> /\ Head(s) = " " THEN str_lstrip(Tail(s)) ELSE s
RECURSIVE str_rstrip(_)
str_rstrip(s) ==
    IF s # <<>> /\ s[Len(s)] = " " THEN str_rstrip(SubSeq(s, 1, Len(s) - 1)) ELSE s
str_strip(s) == str_rstrip(str_lstrip(s))

-----------------------------------------------------------------------------
(* DITConnection.data_query *)

S_select == <<"s", "e", "l", "e", "c", "t", " ">>
S_from == <<" ", "f", "r", "o", "m">>
S_cardholder == <<" ", "L", "n", "l", "_", "C", "a", "r", "d", "h", "o", "l", "d", "e", "r">>
S_star == <<"*">>
S_CITY == <<"C", "I", "T", "Y">>
S_ZIP == <<"Z", "I", "P">>
S_FROMDATE == <<"F", "R", "O", "M", "D", "A", "T", "E">>
S_where_zip == <<" ", "w", "h", "e", "r", "e", " ", "Z", "I", "P", " ", "i", "s", " ", "N", "U", "L", "L">>
S_where_id == <<" ", "w", "h", "e", "r", "e", " ", "I", "D", "=">>

\* A site-defined cardholder field; the same in every instance of this model.
FromDate == "2018"

\* The select lists the client queries with: the text as written in the
\* query, and the properties it lists.
SelectStar == [text |-> S_star, names |-> <<>>]
SelectLists == {
    SelectStar,
    [text |-> <<"C", "I", "T", "Y">>, names |-> <<"CITY">>],
    [text |-> <<"C", "i", "t", "y", ",", " ", "z", "i", "p">>,
     names |-> <<"CITY", "ZIP">>],
    [text |-> <<"Z", "I", "P", ",", "C", "I", "T", "Y", ",", "Z", "I", "P">>,
     names |-> <<"ZIP", "CITY", "ZIP">>],
    [text |-> <<"z", "i", "p", ",", " ", "F", "R", "O", "M", "D", "A", "T", "E">>,
     names |-> <<"ZIP", "FROMDATE">>],
    [text |-> <<"F", "r", "o", "m", "D", "a", "t", "e">>,
     names |-> <<"FROMDATE">>] }

\* The where clauses the client queries with.
Filters == {[kind |-> "all", id |-> 0], [kind |-> "zipnull", id |-> 0]}
           \cup {[kind |-> "id", id |-> n] : n \in 1..MaxObjs}

where_text(f) ==
    IF f.kind = "all" THEN <<>>
    ELSE IF f.kind = "zipnull" THEN S_where_zip
    ELSE S_where_id \o <<ToString(f.id)>>

\* The query text the client passes.
wql_text(sel, f) == S_select \o sel \o S_from \o S_cardholder \o where_text(f)

\* namespace.query(wql): the provider's rows, in ID order.
provider_rows(st, f) ==
    LET keep(i) == IF f.kind = "all" THEN TRUE
                   ELSE IF f.kind = "zipnull" THEN st[i].ZIP = NULL
                   ELSE i = f.id
    IN SelectSeq([i \in 1..Len(st) |-> [path |-> i, props |-> st[i]]],
                 LAMBDA r : keep(r.path))

\* The properties an instance has, by name.
has_property(name) == name \in {S_CITY, S_ZIP, S_FROMDATE}

\* getattr(r, name) for a property the instance has.
row_getattr(r, name) ==
    IF name = S_CITY THEN r.props.CITY
    ELSE IF name = S_ZIP THEN r.props.ZIP
    ELSE FromDate

\* The select list data_query reads off the query text:
\* [p.strip() for p in wql[7:wql.lower().index(' from')].split(',')]
strip_each(parts) == [i \in 1..Len(parts) |-> str_strip(parts[i])]

query_properties(wql) ==
    strip_each(str_split(py_slice(wql, 7, str_index(str_lower(wql), S_from)), ","))

\* DITElement(namespace, ole_obj=r)
wrap(r) == [bound |-> TRUE, path |-> r.path, props |-> r.props]

\* The select * branch: every row wrapped, all in one tuple, in a list.
star_result(results) == << [i \in 1..Len(results) |-> wrap(results[i])] >>

\* The property-list branch: one tuple of the listed properties per row.
list_result(results, properties) ==
    [i \in 1..Len(results) |->
        [j \in 1..Len(properties) |->
            row_getattr(results[i], str_upper(properties[j]))]]

\* What data_query does with the rows and the select list it read.
data_query_rows(results, from_at, properties, queryOk, info) ==
    IF ~queryOk
    THEN IF handle_error(info) \in Raises
         THEN [exc |-> handle_error(info), result |-> <<>>,
               returnedList |-> FALSE, comErr |-> TRUE]
         ELSE \* past the handler the function ends and returns None
              [exc |-> "ok", result |-> <<>>, returnedList |-> FALSE,
               comErr |-> TRUE]
    ELSE IF from_at = -1
    THEN [exc |-> "ValueError", result |-> <<>>, returnedList |-> FALSE,
          comErr |-> FALSE]
    ELSE IF properties[1] = S_star
    THEN [exc |-> "ok", result |-> star_result(results),
          returnedList |-> TRUE, comErr |-> FALSE]
    ELSE IF results # <<>> /\ \E j \in DOMAIN properties :
                                 ~has_property(str_upper(properties[j]))
    THEN [exc |-> "AttributeError", result |-> <<>>, returnedList |-> FALSE,
          comErr |-> FALSE]
    ELSE [exc |-> "ok", result |-> list_result(results, properties),
          returnedList |-> TRUE, comErr |-> FALSE]

\* data_query(wql): [exc, result, returnedList, comErr]
data_query(st, sel, f, queryOk, info) ==
    data_query_rows(provider_rows(st, f),
                    str_index(str_lower(wql_text(sel.text, f)), S_from),
                    query_properties(wql_text(sel.text, f)), queryOk, info)

DataQuery(sel, f, queryOk, info) ==
    /\ connected
    /\ \E r \in {data_query(store, sel, f, queryOk, info)} :
          last' = [NoOp EXCEPT !.op = "query", !.exc = r.exc, !.comErr = r.comErr,
                               !.info = (r.comErr /\ info), !.sel = sel,
                               !.rows = provider_rows(store, f),
                               !.result = r.result,
                               !.returnedList = r.returnedList]
    /\ UNCHANGED <<connected, store, clock, el, watcher, evq, arrived, delivered,
                   ncalls>>

\* lisa = dit.data_query('select * from Lnl_Cardholder where ID=1')[0][0]
FetchElement(f, queryOk, info) ==
    /\ connected
    /\ \E r \in {data_query(store, SelectStar, f, queryOk, info)} :
       LET found == r.exc = "ok" /\ r.returnedList /\ r.result[1] # <<>>
       IN /\ el' = IF found THEN r.result[1][1] ELSE el
          /\ last' = [NoOp EXCEPT !.op = "fetch", !.comErr = r.comErr,
                                  !.info = (r.comErr /\ info),
                                  !.exc = IF r.exc # "ok" THEN r.exc
                                          ELSE IF ~r.returnedList THEN "TypeError"
                                          ELSE IF found THEN "ok"
                                          ELSE "IndexError"]
    /\ UNCHANGED <<connected, store, clock, watcher, evq, arrived,
                   delivered, ncalls>>

\* send_event(description, source, ...): SendIncomingEvent, nothing returned.
SendEvent(ok, info) ==
    /\ connected
    /\ last' = [NoOp EXCEPT !.op = "send_event", !.comErr = ~ok,
                            !.info = (~ok /\ info),
                            !.exc = IF ok THEN "ok"
                                    ELSE IF handle_error(info) \in Raises
                                         THEN handle_error(info)
                                         ELSE "ok"]
    /\ UNCHANGED <<connected, store, clock, el, watcher, evq, arrived, delivered,
                   ncalls>>

-----------------------------------------------------------------------------
(* Watchers *)

\* SWatcher.targets
targets == { <<"l", "n", "l", "_", "c", "a", "r", "d", "h", "o", "l", "d", "e", "r">>,
             <<"l", "n", "l", "_", "v", "i", "s", "i", "t", "o", "r">>,
             <<"l", "n", "l", "_", "b", "a", "d", "g", "e">>,
             <<"l", "n", "l", "_", "a", "c", "c", "o", "u", "n", "t">> }

\* The TargetCls arguments the client passes.
TargetClasses == { <<"L", "n", "l", "_", "C", "a", "r", "d", "h", "o", "l", "d", "e", "r">>,
                   <<"l", "n", "l", "_", "v", "i", "s", "i", "t", "o", "r">>,
                   <<"L", "N", "L", "_", "B", "A", "D", "G", "E">>,
                   <<"L", "n", "l", "_", "A", "c", "c", "o", "u", "n", "t">>,
                   <<"L", "n", "l", "_", "R", "e", "a", "d", "e", "r">>,
                   <<"L", "n", "l", "_", "B", "a", "d", "g", "e", "2">> }

\* The operation arguments: __InstanceOperationEvent and a child.
SWOperationEvent == <<"_", "_", "I", "n", "s", "t", "a", "n", "c", "e", "O", "p", "e", "r", "a", "t", "i", "o", "n", "E", "v", "e", "n", "t">>
SWCreationEvent == <<"_", "_", "I", "n", "s", "t", "a", "n", "c", "e", "C", "r", "e", "a", "t", "i", "o", "n", "E", "v", "e", "n", "t">>
Operations == {SWOperationEvent, SWCreationEvent}

\* The hardware event classes.
HWEvent == <<"L", "n", "l", "_", "S", "e", "c", "u", "r", "i", "t", "y", "E", "v", "e", "n", "t">>
HWAccessEvent == <<"L", "n", "l", "_", "A", "c", "c", "e", "s", "s", "E", "v", "e", "n", "t">>
EventClasses == {HWEvent, HWAccessEvent}

S_select_star_from == <<"s", "e", "l", "e", "c", "t", " ", "*", " ", "f", "r", "o", "m", " ">>
S_SELECT_STAR_FROM == <<"S", "E", "L", "E", "C", "T", " ", "*", " ", "F", "R", "O", "M", " ">>
S_where_isa == <<" ", "w", "h", "e", "r", "e", " ", "T", "a", "r", "g", "e", "t", "I", "n", "s", "t", "a", "n", "c", "e", " ", "I", "S", "A", " ", "'">>
S_quote == <<"'">>

\* f"select * from {operation} where TargetInstance ISA '{TargetCls}'"
sw_query(TargetCls, operation) ==
    S_select_star_from \o operation \o S_where_isa \o TargetCls \o S_quote

\* f"SELECT * FROM {EventClass}"
hw_query(EventClass) == S_SELECT_STAR_FROM \o EventClass

\* A target check that compares the class name as given.
sw_target_ok_exact(TargetCls) == TargetCls \in targets

\* TargetCls.lower() in SWatcher.targets
sw_target_ok(TargetCls) == str_lower(TargetCls) \in targets

\* _DITWatcher.__init__: ExecNotificationQuery(wql), then the base class keeps
\* the event source.  [exc, made, comErr, nq]
ditwatcher_init(execOk, info) ==
    IF ~execOk
    THEN IF handle_error(info) \in Raises
         THEN [exc |-> handle_error(info), made |-> FALSE, comErr |-> TRUE, nq |-> 1]
         ELSE \* past the handler the watcher exists, without an event source
              [exc |-> "ok", made |-> FALSE, comErr |-> TRUE, nq |-> 1]
    ELSE [exc |-> "ok", made |-> TRUE, comErr |-> FALSE, nq |-> 1]

\* SWatcher.__init__: [exc, made, comErr, nq, wql]
swatcher_init(TargetCls, operation, execOk, info) ==
    IF ~sw_target_ok(TargetCls)
    THEN [exc |-> "ValueError", made |-> FALSE, comErr |-> FALSE, nq |-> 0,
          wql |-> <<>>]
    ELSE LET r == ditwatcher_init(execOk, info)
         IN [exc |-> r.exc, made |-> r.made, comErr |-> r.comErr, nq |-> r.nq,
             wql |-> sw_query(TargetCls, operation)]

\* dit.software_events(TargetCls, operation): the client's watcher is the new
\* SWatcher when the constructor returns.
SoftwareEvents(TargetCls, operation, execOk, info) ==
    /\ connected
    /\ LET r == swatcher_init(TargetCls, operation, execOk, info)
       IN /\ watcher' = IF r.made THEN "sw" ELSE watcher
          /\ evq' = IF r.made THEN <<>> ELSE evq
          /\ arrived' = IF r.made THEN <<>> ELSE arrived
          /\ delivered' = IF r.made THEN <<>> ELSE delivered
          /\ ncalls' = IF r.made THEN 0 ELSE ncalls
          /\ last' = [NoOp EXCEPT !.op = "software_events", !.exc = r.exc,
                                  !.comErr = r.comErr, !.info = (r.comErr /\ info),
                                  !.cls = TargetCls, !.operation = operation,
                                  !.wql = r.wql, !.nq = r.nq,
                                  !.returnedList = r.made]
    /\ UNCHANGED <<connected, store, clock, el>>

\* dit.hardware_events(EventClass)
HardwareEvents(EventClass, execOk, info) ==
    /\ connected
    /\ LET r == ditwatcher_init(execOk, info)
       IN /\ watcher' = IF r.made THEN "hw" ELSE watcher
          /\ evq' = IF r.made THEN <<>> ELSE evq
          /\ arrived' = IF r.made THEN <<>> ELSE arrived
          /\ delivered' = IF r.made THEN <<>> ELSE delivered
          /\ ncalls' = IF r.made THEN 0 ELSE ncalls
          /\ last' = [NoOp EXCEPT !.op = "hardware_events", !.exc = r.exc,
                                  !.comErr = r.comErr, !.info = (r.comErr /\ info),
                                  !.cls = EventClass, !.wql = hw_query(EventClass),
                                  !.nq = r.nq, !.returnedList = r.made]
    /\ UNCHANGED <<connected, store, clock, el>>

\* What a notification carries.
AlarmTexts == {"Granted Access", "Denied Access"}

\* A hardware event as the provider hands it over: an object with
\* Properties_, one of them the embedded Alarm object.
hw_event(serial, text) ==
    [Properties_ |-> [SerialNumber |-> serial,
                      Alarm |-> [Properties_ |-> [Description |-> text]]]]

\* A software event: the target instance, and the previous instance when the
\* operation has one.
sw_event(serial, text, hasPrevious) ==
    [Properties_ |-> [ID |-> serial, CITY |-> text],
     previous |-> IF hasPrevious
                  THEN << [Properties_ |-> [ID |-> serial, CITY |-> NULL]] >>
                  ELSE <<>>]

\* The provider raises a notification for the client's subscription.
Notify(text, hasPrevious) ==
    /\ watcher # "none"
    /\ Len(arrived) < MaxEvents
    /\ LET ev == IF watcher = "hw" THEN hw_event(Len(arrived) + 1, text)
                 ELSE sw_event(Len(arrived) + 1, text, hasPrevious)
       IN /\ evq' = Append(evq, ev)
          /\ arrived' = Append(arrived, ev)
    /\ last' = [NoOp EXCEPT !.op = "notify"]
    /\ UNCHANGED <<connected, store, clock, el, watcher, delivered, ncalls>>

\* _DITWatcher._to_dict: {p.Name: p.Value for p in wmi_obj.Properties_}
to_dict(wmi_obj) == wmi_obj.Properties_

\* HWatcher.__call__: the event as a dict, its Alarm as a dict too.
hw_dict(event) == [to_dict(event) EXCEPT !.Alarm = to_dict(@)]

\* SWatcher.__call__: the event as a dict, with "previous" a dict or None.
sw_dict(event) ==
    [k \in DOMAIN to_dict(event) \cup {"previous"} |->
        IF k = "previous"
        THEN IF event.previous # <<>> THEN << to_dict(event.previous[1]) >>
             ELSE <<>>
        ELSE to_dict(event)[k]]

event_dict(kind, event) == IF kind = "hw" THEN hw_dict(event) ELSE sw_dict(event)

\* The arguments a client passes to a watcher call: none, or a timeout in ms.
CallArgs == {-1, 0, 500}

\* A call that hands the caller's timeout on to the base class.
call_timeout_passed(arg) == arg

\* The timeout the base class waits with: HWatcher/SWatcher.__call__ and
\* _DITWatcher.__call__ call super().__call__() without arguments, so it is
\* the default, which waits without limit.
call_timeout(arg) == -1

\* _wmii._wmi_watcher.__call__(timeout_ms): NextEvent on the event source.
\* The head of the queue when there is one; otherwise it waits, and gives up
\* with a timeout error only when the timeout is finite.
next_event(q, timeout_ms, failed) ==
    IF failed THEN [kind |-> "error"]
    ELSE IF q # <<>> THEN [kind |-> "event"]
    ELSE IF timeout_ms = -1 THEN [kind |-> "wait"]
    ELSE [kind |-> "timeout"]

\* watcher(*args): returns once the base class call has returned or raised.
WatcherCall(arg, failed, info) ==
    /\ connected
    /\ watcher # "none"
    /\ LET r == next_event(evq, call_timeout(arg), failed)
           raised == r.kind \in {"error", "timeout"}
           passed == raised /\ handle_error(info) \notin Raises
       IN /\ r.kind # "wait"
          /\ evq' = IF r.kind = "event" THEN Tail(evq) ELSE evq
          /\ delivered' = IF r.kind = "event"
                          THEN Append(delivered, event_dict(watcher, Head(evq)))
                          ELSE delivered
          /\ ncalls' = IF r.kind = "event" THEN ncalls + 1 ELSE ncalls
          /\ last' = [NoOp EXCEPT !.op = "call", !.comErr = raised,
                                  !.info = (raised /\ info),
                                  !.timeout = arg,
                                  !.timedOut = (r.kind = "timeout"),
                                  !.returnedList = (r.kind = "event"),
                                  !.exc = IF r.kind = "event" THEN "ok"
                                          ELSE IF passed
                                          THEN \* _to_dict(None)
                                               "AttributeError"
                                          ELSE handle_error(info)]
    /\ UNCHANGED <<connected, store, clock, el, watcher, arrived>>

-----------------------------------------------------------------------------
(* The specification *)

\* The store holds the cardholder of the module's example: Lisa, in Rome.
Init ==
    /\ connected = FALSE
    /\ store = << [CITY |-> "Rome", ZIP |-> NULL, LASTCHANGED |-> 0] >>
    /\ clock = 0
    /\ el = [bound |-> FALSE, path |-> NoPath, props |-> BlankProps]
    /\ last = NoOp
    /\ watcher = "none"
    /\ evq = <<>>
    /\ arrived = <<>>
    /\ delivered = <<>>
    /\ ncalls = 0

\* The element operations.
ElementNext ==
    \/ \E a \in Answers : Connect(a.ok, a.info)
    \/ \E key \in Keys, value \in Vals, a \in SetAnswers :
            SetAttr(key, value, a.putOk, a.getOk, a.info)
    \/ \E kw \in KwargSets, a \in SetAnswers :
            Set(kw, a.putOk, a.getOk, a.info)
    \/ \E kw \in KwargSets, a \in ElementAnswers :
            NewElement(kw, a.spawnOk, a.putOk, a.getOk, a.info)
    \/ \E o \in 1..MaxObjs, key \in Keys, value \in OtherVals :
            ExternalWrite(o, key, value)
    \/ \E id \in 1..MaxObjs, a \in Answers :
            FetchElement([kind |-> "id", id |-> id], a.ok, a.info)
    \/ \E a \in Answers : SendEvent(a.ok, a.info)

ElementSpec == Init /\ [][ElementNext]_vars

\* The queries, over every store of up to MaxObjs cardholders.
Cardholders == [CITY : Vals \cup OtherVals, ZIP : OtherVals \cup {NULL},
                LASTCHANGED : {0}]
Stores == UNION {[1..n -> Cardholders] : n \in 0..MaxObjs}

QueryInit ==
    /\ connected = FALSE
    /\ store \in Stores
    /\ clock = 0
    /\ el = [bound |-> FALSE, path |-> NoPath, props |-> BlankProps]
    /\ last = NoOp
    /\ watcher = "none"
    /\ evq = <<>>
    /\ arrived = <<>>
    /\ delivered = <<>>
    /\ ncalls = 0

QueryNext ==
    \/ \E a \in Answers : Connect(a.ok, a.info)
    \/ \E sel \in SelectLists, f \in Filters, a \in Answers :
            DataQuery(sel, f, a.ok, a.info)

QuerySpec == QueryInit /\ [][QueryNext]_vars

\* The watchers.
WatchNext ==
    \/ \E a \in Answers : Connect(a.ok, a.info)
    \/ \E T \in TargetClasses, operation \in Operations, a \in Answers :
            SoftwareEvents(T, operation, a.ok, a.info)
    \/ \E EventClass \in EventClasses, a \in Answers :
            HardwareEvents(EventClass, a.ok, a.info)
    \/ \E text \in AlarmTexts, hasPrevious \in BOOLEAN : Notify(text, hasPrevious)
    \/ \E arg \in CallArgs, a \in Answers : WatcherCall(arg, ~a.ok, a.info)

WatchSpec == Init /\ [][WatchNext]_vars

-----------------------------------------------------------------------------
(* The claims *)

\* C1: after a successful property assignment (attribute assignment,
\* set(**kwargs), or the set of a construction) the element's local
\* properties are those the store holds for its object: the assignment was
\* committed, the local state was replaced by a fresh read, and each assigned
\* property reads the assigned value.
C1_LocalEqualsStore ==
    (last.op \in {"setattr", "set", "new"} /\ last.exc = "ok") =>
        /\ el.bound
        /\ el.path \in DOMAIN store
        /\ el.props = store[el.path]
        /\ last.refreshed
        /\ \A k \in DOMAIN last.kw :
              el.props[k] = last.kw[k] /\ store[el.path][k] = last.kw[k]

\* C1 happens: CITY = 'Rochester' succeeded on an element whose object another
\* client had changed meanwhile; the element reads both.
C1_Witness ==
    /\ last.op = "setattr" /\ last.exc = "ok"
    /\ "CITY" \in DOMAIN last.kw
    /\ el.props.CITY = "Rochester"
    /\ el.props.ZIP = "Rome"
    /\ el.props.LASTCHANGED = 2

\* C2: an assignment whose Put_ the store rejects raises DITError or
\* COMError, performs no refresh, leaves the store unchanged and leaves the
\* element's local properties as they were before the assignment.
C2_Transactional ==
    [][ (last'.op \in {"setattr", "set"} /\ last'.putRejected) =>
            /\ last'.exc \in Raises
            /\ ~last'.refreshed
            /\ store' = store
            /\ el'.props = el.props ]_vars

\* What does hold of a rejected assignment: it raises, nothing is refreshed
\* and the store is unchanged; the staged values stay in the element.
C2_RejectedLeavesStaged ==
    [][ (last'.op \in {"setattr", "set"} /\ last'.putRejected) =>
            /\ last'.exc \in Raises
            /\ ~last'.refreshed
            /\ store' = store
            /\ el'.path = el.path
            /\ el'.props = Stage(el.props, last'.kw) ]_vars

\* C2's case happens: a rejected CITY = 'Rochester' on an element that read
\* 'Rome'; the store still holds 'Rome'.
C2_Witness ==
    /\ last.op = "setattr" /\ last.putRejected
    /\ el.path \in DOMAIN store
    /\ store[el.path].CITY = "Rome"
    /\ el.props.CITY = "Rochester"

\* C4: an operation that caught a COM/WMI error ends by raising DITError
\* (DataConduIT had error information) or COMError (it had none); it returns
\* no result and does nothing past the handler.
C4_HandlerAlwaysRaises ==
    last.comErr =>
        /\ last.exc \in Raises
        /\ (last.exc = "DITError") <=> last.info
        /\ ~last.returnedList
        /\ ~last.refreshed

\* C4 happens: an assignment whose Put_ succeeded and whose refresh failed
\* without error information raised COMError.
C4_Witness ==
    /\ last.op = "setattr" /\ last.comErr /\ ~last.putRejected
    /\ ~last.info /\ last.exc = "COMError"

\* The values of the listed properties of a row, in the order listed.
listed_values(r, names) ==
    [j \in 1..Len(names) |->
        IF names[j] = "FROMDATE" THEN FromDate ELSE r.props[names[j]]]

\* C5: a query with a property list returns one tuple per row, in result
\* order, each holding the values of the listed properties in the order
\* listed; no rows give the empty list.
C5_PropertyList ==
    (last.op = "query" /\ last.sel # SelectStar /\ ~last.comErr) =>
        /\ last.exc = "ok"
        /\ last.returnedList
        /\ last.result = [i \in 1..Len(last.rows) |->
                             listed_values(last.rows[i], last.sel.names)]

\* No listed property's name begins with "from".
no_from_name(sel) == \A j \in DOMAIN sel.names : sel.names[j] # "FROMDATE"

\* What does hold: C5 for the select lists in which no property's name
\* begins with "from", and for every select list when there are no rows.
C5_PropertyListNoFrom ==
    (last.op = "query" /\ last.sel # SelectStar /\ ~last.comErr
        /\ (no_from_name(last.sel) \/ last.rows = <<>>)) =>
        /\ last.exc = "ok"
        /\ last.returnedList
        /\ last.result = [i \in 1..Len(last.rows) |->
                             listed_values(last.rows[i], last.sel.names)]

\* C5's case happens: two rows, three listed properties.
C5_Witness ==
    /\ last.op = "query" /\ last.exc = "ok"
    /\ Len(last.sel.names) = 3
    /\ Len(last.rows) = 2
    /\ last.result[2] = <<NULL, "Rochester", NULL>>

\* The elements of a list of tuples, in order.
RECURSIVE flatten(_)
flatten(tuples) ==
    IF tuples = <<>> THEN <<>> ELSE Head(tuples) \o flatten(Tail(tuples))

\* C6: select * returns a list of tuples of DITElements holding every row
\* wrapped exactly once, in result order; a single row's element is
\* result[0][0]; no rows give an empty (falsy) result.
C6_SelectStar ==
    (last.op = "query" /\ last.sel = SelectStar /\ ~last.comErr) =>
        /\ last.exc = "ok"
        /\ last.returnedList
        /\ flatten(last.result) = [i \in 1..Len(last.rows) |-> wrap(last.rows[i])]
        /\ Len(last.rows) = 1 => last.result[1][1] = wrap(last.rows[1])
        /\ last.rows = <<>> => last.result = <<>>

\* What does hold: the result is always a list of exactly one tuple, which
\* holds the wrapped rows in order, so it is not empty when there are no rows.
C6_SelectStarOneTuple ==
    (last.op = "query" /\ last.sel = SelectStar /\ ~last.comErr) =>
        /\ last.exc = "ok"
        /\ last.returnedList
        /\ Len(last.result) = 1
        /\ last.result[1] = [i \in 1..Len(last.rows) |-> wrap(last.rows[i])]

\* C6's case happens: select * matched no row.
C6_Witness ==
    /\ last.op = "query" /\ last.sel = SelectStar /\ last.exc = "ok"
    /\ last.rows = <<>>
    /\ store # <<>>

\* C3: a watcher call returns only with a notification: it never ends by a
\* timeout whatever arguments it was given, each returned call consumed one
\* notification, the n returned calls delivered the first n notifications
\* that arrived, in order and all distinct, and a provider error ends the
\* call with DITError or COMError and no return value.
C3_SynchronousPull ==
    /\ ncalls = Len(delivered)
    /\ Len(delivered) + Len(evq) = Len(arrived)
    /\ evq = SubSeq(arrived, ncalls + 1, Len(arrived))
    /\ \A i \in 1..Len(delivered) : delivered[i] = event_dict(watcher, arrived[i])
    /\ \A i, j \in 1..Len(delivered) : i # j => delivered[i] # delivered[j]
    /\ last.op = "call" =>
          /\ ~last.timedOut
          /\ last.exc = "ok" => (last.returnedList /\ ncalls >= 1)
          /\ last.comErr => (last.exc \in Raises /\ ~last.returnedList)

\* C3 happens: a call given a timeout of 0 returned the second of three
\* notifications of a hardware watcher.
C3_Witness ==
    /\ watcher = "hw"
    /\ last.op = "call" /\ last.exc = "ok" /\ last.timeout = 0
    /\ ncalls = 2 /\ Len(arrived) = 3 /\ Len(evq) = 1
    /\ delivered[2].SerialNumber = 2
    /\ delivered[2].Alarm.Description = "Denied Access"

\* The TargetCls arguments that name a supported class.
SupportedArguments == {
    <<"L", "n", "l", "_", "C", "a", "r", "d", "h", "o", "l", "d", "e", "r">>,
    <<"l", "n", "l", "_", "v", "i", "s", "i", "t", "o", "r">>,
    <<"L", "N", "L", "_", "B", "A", "D", "G", "E">>,
    <<"L", "n", "l", "_", "A", "c", "c", "o", "u", "n", "t">> }

\* C7: software_events raises ValueError for a TargetCls that names no
\* supported class, before any notification query is sent, and no watcher
\* is made; for a supported class (in any letter case) exactly one
\* notification query is sent, of the form
\* select * from <operation> where TargetInstance ISA '<TargetCls>'.
C7_SupportedTargets ==
    last.op = "software_events" =>
        IF last.cls \in SupportedArguments
        THEN /\ last.exc # "ValueError"
             /\ last.nq = 1
             /\ last.wql = S_select_star_from \o last.operation \o S_where_isa
                              \o last.cls \o S_quote
             /\ last.exc = "ok" => (last.returnedList /\ watcher = "sw")
        ELSE /\ last.exc = "ValueError"
             /\ last.nq = 0
             /\ last.wql = <<>>
             /\ ~last.returnedList

\* C7 happens: LNL_BADGE was accepted and its query sent as written.
C7_Witness ==
    /\ last.op = "software_events" /\ last.exc = "ok"
    /\ watcher = "sw"
    /\ last.wql = <<"s", "e", "l", "e", "c", "t", " ", "*", " ", "f", "r", "o", "m", " ", "_", "_", "I", "n", "s", "t", "a", "n", "c", "e", "C", "r", "e", "a", "t", "i", "o", "n", "E", "v", "e", "n", "t", " ", "w", "h", "e", "r", "e", " ", "T", "a", "r", "g", "e", "t", "I", "n", "s", "t", "a", "n", "c", "e">>
                  \o <<" ", "I", "S", "A", " ", "'", "L", "N", "L", "_", "B", "A", "D", "G", "E", "'">>

=============================================================================
